---- MODULE Spec2Model ----
(***************************************************************************)
(* A model of app.py, the teacher's class-administration application:      *)
(* the document store (courses, classes, students, attendance), the blob   *)
(* store holding the syllabus PDFs, and the handlers that write to them.   *)
(***************************************************************************)
EXTENDS Integers, Sequences, FiniteSets, TLC

\* ------------------------------------------------------------------ bounds
\* Student documents ever created (document ids are never reused).
MaxStudents == 2
\* Attendance document ids available.
MaxAtt == 4
\* Batch commits ever made (each takes one server timestamp).
MaxClock == 2

\* Course documents ever created.
MaxCourses == 2
\* Blobs ever uploaded (every upload takes a new uuid4 path).
MaxBlobs == 2
\* Section documents ever created.
MaxClasses == 1

\* Browser sessions running the script.
Sessions == {"u1", "u2"}
\* Dates the date picker is set to.
Dates == {"2025-03-03"}
\* The options of the status select box, in the order of the list.
\* "present" = 출석, "absent" = 결석, "late" = 지각, "excused" = 공결.
StatusOptions == <<"present", "absent", "late", "excused">>
\* A form widget the user did not touch keeps the value the script gave it.
Untouched == "untouched"
\* Student numbers, in ascending order of the stored strings.
StudentNumbers == <<"101", "102">>
\* What the user types in student_dialog.
AddNumbers == {"101"}
StudentNames == {"Kim"}

Range(f) == {f[i] : i \in DOMAIN f}
SetMin(S) == CHOOSE x \in S : \A y \in S : x <= y
SetMax(S) == CHOOSE x \in S : \A y \in S : x >= y

VARIABLES
  classes,      \* collection "classes": document id -> document
  students,     \* sub-collections "students": document id -> document (with its class)
  attendance,   \* collection "attendance": document id -> document
  nextStudent,  \* the number of student documents created so far
  clock,        \* the server's timestamp counter
  apc,          \* per session: where attendance_management is
  actx,         \* per session: the locals of the running attendance_management
  amsg,         \* per session: what the page shows of the last submission
  courses,      \* collection "courses": document id -> document
  blobs,        \* the bucket: the paths that hold a blob
  nextCourse,   \* the number of course documents created so far
  nextBlob,     \* the number of blob paths generated so far
  cpc,          \* where the course handler (course_dialog, or the delete button) is
  cctx,         \* the locals of the course handler
  cmsg,         \* the messages the course handler has shown
  nextClass,    \* the number of section documents created so far
  kpc,          \* where class_dialog is
  kctx,         \* the arguments and locals of class_dialog
  kmsg,         \* what class_dialog showed last
  csv_file,     \* the CSV file uploader of student_management: the file it holds
  imsg,         \* what the bulk import showed last
  progress,     \* sub-collections "progress": document id -> document (with its class)
  sheets,       \* the spreadsheet: worksheet title -> worksheet
  xpc,          \* where the export of data_backup is
  xctx,         \* the locals of the export
  xmsg          \* what the export has shown

attVars == <<attendance, clock, apc, actx, amsg>>
courseVars == <<courses, blobs, nextCourse, nextBlob, cpc, cctx, cmsg>>
classVars == <<nextClass, kpc, kctx, kmsg>>
exportVars == <<progress, sheets, xpc, xctx, xmsg>>
ioVars == <<csv_file, imsg, exportVars>>
vars == <<classes, students, nextStudent, attVars, courseVars, classVars, ioVars>>

AttIds == 1..MaxAtt

\* ------------------------------------------------------- roster (students)

\* student_dialog, add branch: a new document under the class.
StudentAdd(c, student_number, name) ==
  /\ c \in DOMAIN classes
  /\ student_number # "" /\ name # ""
  /\ nextStudent < MaxStudents
  /\ nextStudent' = nextStudent + 1
  /\ students' = [i \in DOMAIN students \cup {nextStudent + 1} |->
                    IF i = nextStudent + 1
                    THEN [class_id |-> c, student_number |-> student_number, name |-> name]
                    ELSE students[i]]
  /\ UNCHANGED <<classes, attVars, courseVars, classVars, ioVars>>

\* student_management, delete button: the student document is removed.
StudentDelete(s) ==
  /\ s \in DOMAIN students
  /\ students' = [i \in DOMAIN students \ {s} |-> students[i]]
  /\ UNCHANGED <<classes, nextStudent, attVars, courseVars, classVars, ioVars>>

\* ------------------------------------------------------------- attendance

NumberRank(n) == CHOOSE i \in DOMAIN StudentNumbers : StudentNumbers[i] = n

RECURSIVE SortByNumber(_)
\* The ids of S ordered by student_number, then by document id.
SortByNumber(S) ==
  IF S = {} THEN <<>>
  ELSE LET first == CHOOSE s \in S : \A o \in S :
                      \/ NumberRank(students[s].student_number) < NumberRank(students[o].student_number)
                      \/ /\ students[s].student_number = students[o].student_number
                         /\ s <= o
       IN <<first>> \o SortByNumber(S \ {first})

\* students_list: the roster of class c, ordered by student_number.
students_list(c) == SortByNumber({s \in DOMAIN students : students[s].class_id = c})

\* The documents of att matching class_id, date and student_id.
Matching(att, c, d, s) ==
  {i \in DOMAIN att : att[i].class_id = c /\ att[i].date = d /\ att[i].student_id = s}

\* attendance_data: the (class, date) records indexed by student_id; the
\* dict comprehension keeps the last document streamed for a student.
attendance_data(c, d) ==
  LET keys == {attendance[i].student_id :
                 i \in {j \in DOMAIN attendance :
                          attendance[j].class_id = c /\ attendance[j].date = d}}
  IN [s \in keys |-> attendance[SetMax(Matching(attendance, c, d, s))]]

\* The existence check left out: every student is taken to have no record.
existing_docs_skipped(att, c, d, s) == <<>>

\* The query without its filter on the date.
existing_docs_any_date(att, c, d, s) ==
  LET m == {i \in DOMAIN att : att[i].class_id = c /\ att[i].student_id = s}
  IN IF m = {} THEN <<>> ELSE <<SetMin(m)>>

\* existing_docs: the query with limit(1), as a list.
existing_docs(att, c, d, s) ==
  IF Matching(att, c, d, s) = {} THEN <<>>
  ELSE <<SetMin(Matching(att, c, d, s))>>

\* The locals of a session that is not submitting.
IdleCtx == [class_id |-> 0, date |-> "", order |-> <<>>, inputs |-> <<>>,
            idx |-> 0, batch |-> <<>>]

\* What the user does with one row of the form: nothing, a status and a
\* note, or a status alone.
FormRows == {[status |-> Untouched, notes |-> Untouched],
             [status |-> "absent", notes |-> "sick"],
             [status |-> "present", notes |-> Untouched]}

\* The rows tried when submissions overlap.
RaceRows == {[status |-> Untouched, notes |-> Untouched],
             [status |-> "absent", notes |-> "sick"]}

\* The rows with the second option of the select box as the default.
attendance_inputs_second(c, d, order, form) ==
  [s \in Range(order) |->
     [student_number |-> students[s].student_number,
      student_name |-> students[s].name,
      status |-> IF form[s].status # Untouched THEN form[s].status ELSE StatusOptions[2],
      notes |-> IF form[s].notes # Untouched THEN form[s].notes ELSE "",
      touched |-> form[s].status # Untouched]]

\* attendance_inputs: one row per student of students_list, the widget's
\* value being the user's choice or, untouched, the default the script gave.
attendance_inputs(c, d, order, form) ==
  [s \in Range(order) |->
     LET existing_att == IF s \in DOMAIN attendance_data(c, d)
                         THEN attendance_data(c, d)[s] ELSE <<>>
         has == existing_att # <<>>
     IN [student_number |-> students[s].student_number,
         student_name |-> students[s].name,
         status |-> IF form[s].status # Untouched THEN form[s].status
                    ELSE IF has THEN existing_att.status ELSE StatusOptions[1],
         notes |-> IF form[s].notes # Untouched THEN form[s].notes
                   ELSE IF has THEN existing_att.notes ELSE "",
         touched |-> form[s].status # Untouched]]

\* The script run in which the form was submitted, up to the start of the batch.
AttSubmit(t, c, d, form) ==
  /\ apc[t] = "idle"
  /\ c \in DOMAIN classes
  /\ students_list(c) # <<>>
  /\ actx' = [actx EXCEPT ![t] =
                [class_id |-> c, date |-> d, order |-> students_list(c),
                 inputs |-> attendance_inputs(c, d, students_list(c), form),
                 idx |-> 1, batch |-> <<>>]]
  /\ apc' = [apc EXCEPT ![t] = "query"]
  /\ amsg' = [amsg EXCEPT ![t] = ""]
  /\ UNCHANGED <<classes, students, attendance, nextStudent, clock, courseVars, classVars, ioVars>>

\* Document references already handed out to a batch that is not committed.
Reserved == UNION {{actx[u].batch[k].ref : k \in DOMAIN actx[u].batch} : u \in Sessions}

\* attendance_collection.document(): a reference with an id no document
\* and no other reference has.
FreshRef == SetMin(AttIds \ (DOMAIN attendance \cup Reserved))

\* Every write queued as a set of a new document, found or not.
BatchOpAlwaysSet(found, fresh, data) == [kind |-> "set", ref |-> fresh, data |-> data]

\* The write queued for a student: an update of the document the query found,
\* or a set of a new document.
BatchOp(found, fresh, data) ==
  IF found # <<>> THEN [kind |-> "update", ref |-> found[1], data |-> data]
  ELSE [kind |-> "set", ref |-> fresh, data |-> data]

\* One turn of the loop over attendance_inputs: the existence query and the
\* write it queues in the batch.
AttQuery(t) ==
  /\ apc[t] = "query"
  /\ LET x == actx[t]
         s == x.order[x.idx]
         data == [class_id |-> x.class_id, student_id |-> s,
                  student_number |-> x.inputs[s].student_number,
                  student_name |-> x.inputs[s].student_name,
                  date |-> x.date, status |-> x.inputs[s].status,
                  notes |-> x.inputs[s].notes, last_updated_at |-> 0]
         found == existing_docs(attendance, x.class_id, x.date, s)
     IN /\ AttIds \ (DOMAIN attendance \cup Reserved) # {}
        /\ actx' = [actx EXCEPT ![t].batch = Append(x.batch, BatchOp(found, FreshRef, data)),
                                ![t].idx = x.idx + 1]
        /\ apc' = [apc EXCEPT ![t] = IF x.idx = Len(x.order) THEN "commit" ELSE "query"]
  /\ UNCHANGED <<classes, students, attendance, nextStudent, clock, amsg, courseVars, classVars, ioVars>>

RECURSIVE ApplyBatchKeyed(_, _, _)
\* The batch applied as an upsert on (class_id, student_id, date): a set whose
\* key already has a document overwrites that document.
ApplyBatchKeyed(att, batch, now) ==
  IF batch = <<>> THEN att
  ELSE LET op == Head(batch)
           doc == [op.data EXCEPT !.last_updated_at = now]
           m == Matching(att, doc.class_id, doc.date, doc.student_id)
           ref == IF op.kind = "set" /\ m # {} THEN SetMin(m) ELSE op.ref
       IN ApplyBatchKeyed([i \in DOMAIN att \cup {ref} |-> IF i = ref THEN doc ELSE att[i]],
                          Tail(batch), now)

\* The writes sent one by one, the run ending after the first.
ApplyBatchFirst(att, batch, now) ==
  IF batch = <<>> THEN att
  ELSE LET op == Head(batch)
       IN [i \in DOMAIN att \cup {op.ref} |->
             IF i = op.ref THEN [op.data EXCEPT !.last_updated_at = now] ELSE att[i]]

RECURSIVE ApplyBatchEveryMatch(_, _, _)
\* An update applied to every document of the key of the one it names.
ApplyBatchEveryMatch(att, batch, now) ==
  IF batch = <<>> THEN att
  ELSE LET op == Head(batch)
           doc == [op.data EXCEPT !.last_updated_at = now]
           refs == IF op.kind = "update"
                   THEN Matching(att, doc.class_id, doc.date, doc.student_id) \cup {op.ref}
                   ELSE {op.ref}
       IN ApplyBatchEveryMatch([i \in DOMAIN att \cup refs |->
                                  IF i \in refs THEN doc ELSE att[i]],
                               Tail(batch), now)

RECURSIVE ApplyBatch(_, _, _)
\* The batch applied to the collection, every write stamped with the
\* server timestamp now.
ApplyBatch(att, batch, now) ==
  IF batch = <<>> THEN att
  ELSE LET op == Head(batch)
           doc == [op.data EXCEPT !.last_updated_at = now]
       IN ApplyBatch([i \in DOMAIN att \cup {op.ref} |-> IF i = op.ref THEN doc ELSE att[i]],
                     Tail(batch), now)

\* batch.commit(): every queued write, atomically.
AttCommit(t) ==
  /\ apc[t] = "commit"
  /\ clock < MaxClock
  /\ clock' = clock + 1
  /\ attendance' = ApplyBatch(attendance, actx[t].batch, clock + 1)
  /\ apc' = [apc EXCEPT ![t] = "idle"]
  /\ actx' = [actx EXCEPT ![t] = IdleCtx]
  /\ UNCHANGED <<classes, students, nextStudent, amsg, courseVars, classVars, ioVars>>

\* A query or the commit raises (the store is unreachable): the script run
\* ends there, the page shows the exception and nothing of the batch is
\* written.
AttFail(t) ==
  /\ apc[t] \in {"query", "commit"}
  /\ apc' = [apc EXCEPT ![t] = "idle"]
  /\ actx' = [actx EXCEPT ![t] = IdleCtx]
  /\ amsg' = [amsg EXCEPT ![t] = "exception"]
  /\ UNCHANGED <<classes, students, attendance, nextStudent, clock, courseVars, classVars, ioVars>>

\* No other session is in the middle of a submission for (c, d).
NotInterleaved(t, c, d) ==
  \A u \in Sessions \ {t} :
    apc[u] = "idle" \/ actx[u].class_id # c \/ actx[u].date # d

\* A document field, or a key of a dict, that is absent (also a path that is None).
Absent == 0

\* days: "Mon" = 월, "Tue" = 화, "Wed" = 수, "Thu" = 목, "Fri" = 금.
days == <<"Mon", "Tue", "Wed", "Thu", "Fri">>

\* class_dialog has not run.
IdleClass == [class_id |-> Absent, courses |-> <<>>, default_schedule |-> <<>>,
              selected_periods |-> [d \in Range(days) |-> <<>>],
              data |-> [course_id |-> Absent, course_name |-> "", year |-> Absent,
                        semester |-> Absent, class_name |-> "", schedule |-> <<>>]]

\* No section dialog open, the sections being those of the collection.
ClassesIdle ==
  /\ nextClass = Cardinality(DOMAIN classes)
  /\ kpc = "idle"
  /\ kctx = IdleClass
  /\ kmsg = ""

\* The file uploader holding no file: csv_file is None.
NoCsv == [present |-> FALSE, columns |-> {}, rows |-> <<>>, pos |-> "start"]

\* The worksheets, in the order the export writes them.
SheetOrder == <<"courses", "classes", "attendance", "students", "progress">>

\* A worksheet the spreadsheet does not have.
NoSheet == [exists |-> FALSE, rows |-> <<>>]

\* Nothing shown by the export.
NoExportMsg == [done |-> {}, skipped |-> {}, errors |-> 0, success |-> FALSE]

\* The export not running.
IdleExport == [k |-> 0, data |-> <<>>, all_classes |-> <<>>]

\* No file in the uploader and nothing imported; no progress entry, an
\* empty spreadsheet and no export run.
ImportIdle ==
  /\ csv_file = NoCsv
  /\ imsg = ""
  /\ progress = <<>>
  /\ sheets = [n \in Range(SheetOrder) |-> NoSheet]
  /\ xpc = "idle"
  /\ xctx = IdleExport
  /\ xmsg = NoExportMsg

\* No course handler has run.
IdleCourse == [op |-> "none", course_id |-> 0, size |-> -1, old_path |-> 0,
               upload_failed |-> FALSE,
               data |-> [year |-> 0, semester |-> 0, name |-> "", pdf_url |-> 0,
                         pdf_path |-> 0]]

\* The course registry and the bucket, empty, and no handler running.
CoursesEmpty ==
  /\ courses = <<>>
  /\ blobs = {}
  /\ nextCourse = 0
  /\ nextBlob = 0
  /\ cpc = "idle"
  /\ cctx = IdleCourse
  /\ cmsg = {}

SectionDoc == [course_id |-> 1, course_name |-> "Algebra", year |-> 2025,
               semester |-> 1, class_name |-> "1-1", schedule |-> <<>>]

InitAttendance ==
  /\ classes = (1 :> SectionDoc)
  /\ students = <<>>
  /\ attendance = <<>>
  /\ nextStudent = 0
  /\ clock = 0
  /\ apc = [t \in Sessions |-> "idle"]
  /\ actx = [t \in Sessions |-> IdleCtx]
  /\ amsg = [t \in Sessions |-> ""]
  /\ CoursesEmpty
  /\ ClassesIdle
  /\ ImportIdle

RosterNext ==
  \/ \E c \in DOMAIN classes, n \in AddNumbers, m \in StudentNames :
       StudentAdd(c, n, m)
  \/ \E s \in DOMAIN students : StudentDelete(s)

NextAttendance ==
  \/ RosterNext
  \/ \E t \in Sessions, c \in DOMAIN classes, d \in Dates :
       \E form \in [Range(students_list(c)) -> FormRows] : AttSubmit(t, c, d, form)
  \/ \E t \in Sessions : AttQuery(t)
  \/ \E t \in Sessions : AttCommit(t)
  \/ \E t \in Sessions : AttFail(t)

NextAttendanceSerial ==
  \/ RosterNext
  \/ \E t \in Sessions, c \in DOMAIN classes, d \in Dates :
       \E form \in [Range(students_list(c)) -> FormRows] :
         NotInterleaved(t, c, d) /\ AttSubmit(t, c, d, form)
  \/ \E t \in Sessions : AttQuery(t)
  \/ \E t \in Sessions : AttCommit(t)
  \/ \E t \in Sessions : AttFail(t)

\* Sessions submit attendance at any time, also while another is submitting.
SpecAttendance == InitAttendance /\ [][NextAttendance]_vars

StudentDoc(c, n) == [class_id |-> c, student_number |-> n, name |-> "Kim"]

\* A section with a roster of two students and no attendance yet.
InitRace ==
  /\ classes = (1 :> SectionDoc)
  /\ students = (1 :> StudentDoc(1, "101")) @@ (2 :> StudentDoc(1, "102"))
  /\ attendance = <<>>
  /\ nextStudent = 2
  /\ clock = 0
  /\ apc = [t \in Sessions |-> "idle"]
  /\ actx = [t \in Sessions |-> IdleCtx]
  /\ amsg = [t \in Sessions |-> ""]
  /\ CoursesEmpty
  /\ ClassesIdle
  /\ ImportIdle

NextRace ==
  \/ \E t \in Sessions, c \in DOMAIN classes, d \in Dates :
       \E form \in [Range(students_list(c)) -> RaceRows] : AttSubmit(t, c, d, form)
  \/ \E t \in Sessions : AttQuery(t)
  \/ \E t \in Sessions : AttCommit(t)
  \/ \E t \in Sessions : AttFail(t)

\* Overlapping submissions for a fixed roster.
SpecRace == InitRace /\ [][NextRace]_vars

\* A submission for (class, date) starts only when no other is under way.
SpecAttendanceSerial == InitAttendance /\ [][NextAttendanceSerial]_vars

\* ---------------------------------------------------------------- courses

\* uploaded_file is None.
NoFile == -1
\* The size limit of line 132, in bytes.
MaxUploadBytes == 10 * 1024 * 1024

YearChoices == {2025}
SemesterChoices == {1}
NameChoices == {"", "Algebra", "Geometry"}
SizeChoices == {NoFile, MaxUploadBytes, MaxUploadBytes + 1}

\* The limit taken ten times too large.
TooLargeLoose(size) == size > 10 * 10 * 1024 * 1024

\* uploaded_file.size > 10 * 1024 * 1024
TooLarge(size) == size > MaxUploadBytes

\* The blob left in place whatever happens.
delete_pdf_kept(bs, blob_name, raises) == [blobs |-> bs, warning |-> raises]

\* delete_pdf_from_storage: the blob is deleted if it exists; an exception of
\* the blob store is caught and shown as a warning.
delete_pdf_from_storage(bs, blob_name, raises) ==
  IF blob_name = Absent THEN [blobs |-> bs, warning |-> FALSE]
  ELSE IF raises THEN [blobs |-> bs, warning |-> TRUE]
  ELSE [blobs |-> bs \ {blob_name}, warning |-> FALSE]

\* The destination returned also when the upload failed.
upload_pdf_always_path(bs, destination_blob_name, outcome) ==
  [blobs |-> IF outcome = "upload_raises" THEN bs ELSE bs \cup {destination_blob_name},
   pdf_url |-> destination_blob_name, pdf_path |-> destination_blob_name,
   error |-> outcome # "ok"]

\* upload_pdf_to_storage: the blob is uploaded and made public, and its URL
\* and path returned; an exception of either call is caught, shown as an
\* error, and (None, None) returned. A public URL is modelled by the path it
\* serves.
upload_pdf_to_storage(bs, destination_blob_name, outcome) ==
  IF outcome = "ok"
  THEN [blobs |-> bs \cup {destination_blob_name},
        pdf_url |-> destination_blob_name, pdf_path |-> destination_blob_name,
        error |-> FALSE]
  ELSE [blobs |-> IF outcome = "make_public_raises"
                  THEN bs \cup {destination_blob_name} ELSE bs,
        pdf_url |-> Absent, pdf_path |-> Absent, error |-> TRUE]

\* document.update(data): the fields of data overwrite the document's, the
\* other fields stay.
UpdateDoc(doc, data) ==
  [doc EXCEPT !.year = data.year, !.semester = data.semester, !.name = data.name,
              !.pdf_url = IF data.pdf_url # Absent THEN data.pdf_url ELSE @,
              !.pdf_path = IF data.pdf_path # Absent THEN data.pdf_path ELSE @]

\* course_dialog, the run in which the form was submitted, up to the
\* validation: course_id is Absent for "add".
CourseSubmit(course_id, year, semester, name, size) ==
  /\ cpc = "idle"
  /\ course_id = Absent \/ course_id \in DOMAIN courses
  /\ LET is_edit == course_id # Absent
         old_path == IF is_edit THEN courses[course_id].pdf_path ELSE Absent
     IN /\ cctx' = [op |-> "save", course_id |-> course_id, size |-> size,
                    old_path |-> old_path, upload_failed |-> FALSE,
                    data |-> [year |-> year, semester |-> semester, name |-> name,
                              pdf_url |-> Absent, pdf_path |-> Absent]]
        /\ IF name = "" THEN cpc' = "idle" /\ cmsg' = {"warning_name"}
           ELSE IF size # NoFile /\ TooLarge(size) THEN cpc' = "idle" /\ cmsg' = {"error_size"}
           ELSE /\ cmsg' = {}
                /\ cpc' = IF size = NoFile THEN "write"
                          ELSE IF is_edit /\ old_path # Absent THEN "delete_old"
                          ELSE "upload"
  /\ UNCHANGED <<courses, blobs, nextCourse, nextBlob>>
  /\ UNCHANGED <<classes, students, nextStudent, attVars, classVars, ioVars>>

\* course_dialog, line 137: the previous PDF is deleted.
CourseDeleteOld(raises) ==
  /\ cpc = "delete_old"
  /\ LET r == delete_pdf_from_storage(blobs, cctx.old_path, raises)
     IN /\ blobs' = r.blobs
        /\ cmsg' = IF r.warning THEN cmsg \cup {"warning_delete"} ELSE cmsg
  /\ cpc' = "upload"
  /\ UNCHANGED <<courses, nextCourse, nextBlob, cctx>>
  /\ UNCHANGED <<classes, students, nextStudent, attVars, classVars, ioVars>>

\* course_dialog, lines 139-144: the new PDF is uploaded under a new path.
CourseUpload(outcome) ==
  /\ cpc = "upload"
  /\ nextBlob < MaxBlobs
  /\ nextBlob' = nextBlob + 1
  /\ LET r == upload_pdf_to_storage(blobs, nextBlob + 1, outcome)
     IN /\ blobs' = r.blobs
        /\ cmsg' = IF r.error THEN cmsg \cup {"error_upload"} ELSE cmsg
        /\ cctx' = [cctx EXCEPT !.upload_failed = r.error,
                                !.data.pdf_url = r.pdf_url,
                                !.data.pdf_path = r.pdf_path]
  /\ cpc' = "write"
  /\ UNCHANGED <<courses, nextCourse>>
  /\ UNCHANGED <<classes, students, nextStudent, attVars, classVars, ioVars>>

\* course_dialog, lines 146-152: the document is updated, or added. (The
\* created_at of a new document is left out.) The store raising ends the
\* run with the exception.
CourseWrite(ok) ==
  /\ cpc = "write"
  /\ cpc' = "idle"
  /\ IF ~ok
     THEN /\ cmsg' = cmsg \cup {"exception"}
          /\ UNCHANGED <<courses, nextCourse>>
     ELSE /\ cmsg' = cmsg \cup {"success"}
          /\ IF cctx.course_id # Absent
             THEN /\ courses' = [courses EXCEPT ![cctx.course_id] = UpdateDoc(@, cctx.data)]
                  /\ UNCHANGED nextCourse
             ELSE /\ nextCourse' = nextCourse + 1
                  /\ courses' = [i \in DOMAIN courses \cup {nextCourse + 1} |->
                                   IF i = nextCourse + 1 THEN cctx.data ELSE courses[i]]
  /\ cctx.course_id = Absent /\ ok => nextCourse < MaxCourses
  /\ UNCHANGED <<blobs, nextBlob, cctx>>
  /\ UNCHANGED <<classes, students, nextStudent, attVars, classVars, ioVars>>

\* course_management, the delete button of a listed course, up to the
\* deletion of its PDF.
CourseDelete(course_id) ==
  /\ cpc = "idle"
  /\ course_id \in DOMAIN courses
  /\ cctx' = [IdleCourse EXCEPT !.op = "delete", !.course_id = course_id,
                                !.old_path = courses[course_id].pdf_path]
  /\ cmsg' = {}
  /\ cpc' = IF courses[course_id].pdf_path # Absent THEN "del_blob" ELSE "del_doc"
  /\ UNCHANGED <<courses, blobs, nextCourse, nextBlob>>
  /\ UNCHANGED <<classes, students, nextStudent, attVars, classVars, ioVars>>

\* course_management, line 193: the PDF of the course is deleted.
CourseDelBlob(raises) ==
  /\ cpc = "del_blob"
  /\ LET r == delete_pdf_from_storage(blobs, cctx.old_path, raises)
     IN /\ blobs' = r.blobs
        /\ cmsg' = IF r.warning THEN cmsg \cup {"warning_delete"} ELSE cmsg
  /\ cpc' = "del_doc"
  /\ UNCHANGED <<courses, nextCourse, nextBlob, cctx>>
  /\ UNCHANGED <<classes, students, nextStudent, attVars, classVars, ioVars>>

\* course_management, lines 194-196: the course document is deleted. The
\* store raising ends the run with the exception.
CourseDelDoc(ok) ==
  /\ cpc = "del_doc"
  /\ cpc' = "idle"
  /\ IF ok
     THEN /\ courses' = [i \in DOMAIN courses \ {cctx.course_id} |-> courses[i]]
          /\ cmsg' = cmsg \cup {"success"}
     ELSE /\ UNCHANGED courses
          /\ cmsg' = cmsg \cup {"exception"}
  /\ UNCHANGED <<blobs, nextCourse, nextBlob, cctx>>
  /\ UNCHANGED <<classes, students, nextStudent, attVars, classVars, ioVars>>

InitCourse ==
  /\ classes = <<>>
  /\ students = <<>>
  /\ attendance = <<>>
  /\ nextStudent = 0
  /\ clock = 0
  /\ apc = [t \in Sessions |-> "idle"]
  /\ actx = [t \in Sessions |-> IdleCtx]
  /\ amsg = [t \in Sessions |-> ""]
  /\ CoursesEmpty
  /\ ClassesIdle
  /\ ImportIdle

NextCourse ==
  \/ \E course_id \in {Absent} \cup DOMAIN courses, year \in YearChoices,
        semester \in SemesterChoices, name \in NameChoices, size \in SizeChoices :
       CourseSubmit(course_id, year, semester, name, size)
  \/ \E raises \in BOOLEAN : CourseDeleteOld(raises)
  \/ \E outcome \in {"ok", "upload_raises", "make_public_raises"} : CourseUpload(outcome)
  \/ \E ok \in BOOLEAN : CourseWrite(ok)
  \/ \E course_id \in DOMAIN courses : CourseDelete(course_id)
  \/ \E raises \in BOOLEAN : CourseDelBlob(raises)
  \/ \E ok \in BOOLEAN : CourseDelDoc(ok)

\* The course registry: courses added, edited and deleted by one session.
SpecCourse == InitCourse /\ [][NextCourse]_vars

\* --------------------------------------------------------------- sections

\* What the user leaves in the multiselect of a weekday: the periods in the
\* order they were picked, each option at most once.
SelectionChoices == {<<>>, <<1>>, <<8, 2>>}
\* The weekdays whose multiselect the user changes.
DaysChanged == {"Mon", "Fri"}
ClassNameChoices == {"", "1-1"}

\* periods_for_day: the periods default_schedule holds for day.
periods_for_day(default_schedule, day) ==
  LET items == SelectSeq(default_schedule, LAMBDA item : item.day = day)
  IN [i \in 1..Len(items) |-> items[i].period]

RECURSIVE AppendDays(_, _, _)
\* The loop over days: the entries of each day appended in turn.
AppendDays(acc, ds, selected_periods) ==
  IF ds = <<>> THEN acc
  ELSE LET day == Head(ds)
           entries == [i \in 1..Len(selected_periods[day]) |->
                         [day |-> day, period |-> selected_periods[day][i]]]
       IN AppendDays(acc \o entries, Tail(ds), selected_periods)

\* schedule_data: the selections of the five multiselects as one list.
schedule_data(selected_periods) == AppendDays(<<>>, days, selected_periods)

\* The new schedule appended to the stored one.
UpdateClassAppended(doc, data) == [data EXCEPT !.schedule = doc.schedule \o data.schedule]

\* document.update(data): data holds every field of a section (but
\* created_at, left out), each overwriting the stored one.
UpdateClassDoc(doc, data) == data

\* class_management, the add button or the edit button of a listed section:
\* class_dialog is called with the course names read in this run and renders
\* the form with the stored values as defaults. class_id is Absent for "add".
ClassOpen(class_id) ==
  /\ kpc = "idle"
  /\ DOMAIN courses # {}
  /\ class_id = Absent \/ class_id \in DOMAIN classes
  /\ kctx' = [IdleClass EXCEPT
                !.class_id = class_id,
                !.courses = [i \in DOMAIN courses |-> courses[i].name],
                !.default_schedule = IF class_id # Absent THEN classes[class_id].schedule
                                     ELSE <<>>]
  /\ kpc' = "form"
  /\ kmsg' = ""
  /\ UNCHANGED <<classes, nextClass>>
  /\ UNCHANGED <<students, nextStudent, attVars, courseVars, ioVars>>

\* class_dialog, the run in which the form was submitted, up to the write:
\* form holds the multiselects the user changed, the others having their
\* defaults.
ClassSubmit(selected_course_id, class_name, form) ==
  /\ kpc = "form"
  /\ selected_course_id \in DOMAIN kctx.courses
  /\ LET selected_periods ==
           [d \in Range(days) |->
              IF d \in DOMAIN form THEN form[d]
              ELSE periods_for_day(kctx.default_schedule, d)]
         exists == selected_course_id \in DOMAIN courses
         data == [course_id |-> selected_course_id,
                  course_name |-> kctx.courses[selected_course_id],
                  year |-> IF exists THEN courses[selected_course_id].year ELSE Absent,
                  semester |-> IF exists THEN courses[selected_course_id].semester
                               ELSE Absent,
                  class_name |-> class_name,
                  schedule |-> schedule_data(selected_periods)]
     IN IF class_name = ""
        THEN /\ kmsg' = "warning_name"
             /\ UNCHANGED <<kpc, kctx>>
        ELSE /\ kctx' = [kctx EXCEPT !.selected_periods = selected_periods,
                                     !.data = data]
             /\ kpc' = "write"
             /\ kmsg' = ""
  /\ UNCHANGED <<classes, nextClass>>
  /\ UNCHANGED <<students, nextStudent, attVars, courseVars, ioVars>>

\* class_dialog, lines 256-262: the section is updated, or added. update()
\* of a document deleted in the meantime raises, and the run ends with the
\* exception.
ClassWrite ==
  /\ kpc = "write"
  /\ kpc' = "idle"
  /\ IF kctx.class_id # Absent
     THEN IF kctx.class_id \in DOMAIN classes
          THEN /\ classes' = [classes EXCEPT ![kctx.class_id] = UpdateClassDoc(@, kctx.data)]
               /\ kmsg' = "success_edit"
               /\ UNCHANGED nextClass
          ELSE /\ kmsg' = "exception"
               /\ UNCHANGED <<classes, nextClass>>
     ELSE /\ nextClass < MaxClasses
          /\ nextClass' = nextClass + 1
          /\ classes' = [i \in DOMAIN classes \cup {nextClass + 1} |->
                           IF i = nextClass + 1 THEN kctx.data ELSE classes[i]]
          /\ kmsg' = "success_add"
  /\ UNCHANGED kctx
  /\ UNCHANGED <<students, nextStudent, attVars, courseVars, ioVars>>

\* The dialog is closed without saving.
ClassDismiss ==
  /\ kpc = "form"
  /\ kpc' = "idle"
  /\ UNCHANGED <<classes, nextClass, kctx, kmsg>>
  /\ UNCHANGED <<students, nextStudent, attVars, courseVars, ioVars>>

\* The delete button taking the students of the section with it.
ClassDeleteCascade(class_id) ==
  /\ class_id \in DOMAIN classes
  /\ classes' = [i \in DOMAIN classes \ {class_id} |-> classes[i]]
  /\ students' = [i \in {j \in DOMAIN students : students[j].class_id # class_id} |->
                    students[i]]
  /\ UNCHANGED <<nextClass, kpc, kctx, kmsg>>
  /\ UNCHANGED <<nextStudent, attVars, courseVars, ioVars>>

\* class_management, the delete button of a listed section (in this or in
\* another browser tab): the section document is deleted, and nothing else.
ClassDelete(class_id) ==
  /\ class_id \in DOMAIN classes
  /\ classes' = [i \in DOMAIN classes \ {class_id} |-> classes[i]]
  /\ UNCHANGED <<nextClass, kpc, kctx, kmsg>>
  /\ UNCHANGED <<students, nextStudent, attVars, courseVars, ioVars>>

CourseDoc(name) == [year |-> 2025, semester |-> 1, name |-> name,
                    pdf_url |-> Absent, pdf_path |-> Absent]

\* Two courses without a PDF, and no section yet.
InitClass ==
  /\ classes = <<>>
  /\ students = <<>>
  /\ attendance = <<>>
  /\ nextStudent = 0
  /\ clock = 0
  /\ apc = [t \in Sessions |-> "idle"]
  /\ actx = [t \in Sessions |-> IdleCtx]
  /\ amsg = [t \in Sessions |-> ""]
  /\ courses = <<CourseDoc("Algebra"), CourseDoc("Geometry")>>
  /\ blobs = {}
  /\ nextCourse = 2
  /\ nextBlob = 0
  /\ cpc = "idle"
  /\ cctx = IdleCourse
  /\ cmsg = {}
  /\ ClassesIdle
  /\ ImportIdle

NextClass ==
  \/ \E class_id \in {Absent} \cup DOMAIN classes : ClassOpen(class_id)
  \/ \E selected_course_id \in DOMAIN courses, class_name \in ClassNameChoices,
        changed \in SUBSET DaysChanged :
       \E form \in [changed -> SelectionChoices] :
         ClassSubmit(selected_course_id, class_name, form)
  \/ ClassWrite
  \/ ClassDismiss
  \/ \E class_id \in DOMAIN classes : ClassDelete(class_id)

\* The section registry: sections added, edited and deleted.
SpecClass == InitClass /\ [][NextClass]_vars

\* The section dialog while the course registry is edited in another browser
\* tab: courses without a PDF are renamed and deleted, sections are saved
\* with the schedule left as it is.
NextClassCourse ==
  \/ \E class_id \in {Absent} \cup DOMAIN classes : ClassOpen(class_id)
  \/ \E selected_course_id \in DOMAIN kctx.courses :
       ClassSubmit(selected_course_id, "1-1", <<>>)
  \/ ClassWrite
  \/ \E class_id \in DOMAIN classes : ClassDelete(class_id)
  \/ \E course_id \in DOMAIN courses, year \in YearChoices,
        semester \in SemesterChoices, name \in NameChoices \ {""} :
       CourseSubmit(course_id, year, semester, name, NoFile)
  \/ CourseWrite(TRUE)
  \/ \E course_id \in DOMAIN courses : CourseDelete(course_id)
  \/ CourseDelDoc(TRUE)

\* Sections saved while courses are renamed and deleted.
SpecClassCourse == InitClass /\ [][NextClassCourse]_vars

\* ------------------------------------------------------------ bulk import

\* The cells of the DataFrame read_csv returns: an integer (a column of
\* digits), a string, or NaN (an empty cell).
IntCell(n) == [kind |-> "int", int |-> n, str |-> ""]
StrCell(t) == [kind |-> "str", int |-> 0, str |-> t]
NaN == [kind |-> "nan", int |-> 0, str |-> ""]

\* str(cell)
Str(cell) ==
  CASE cell.kind = "int" -> ToString(cell.int)
    [] cell.kind = "str" -> cell.str
    [] cell.kind = "nan" -> "nan"

\* The tables uploaded. Column "number" = 학번, column "name" = 이름.
RowChoices == {[number |-> IntCell(101), name |-> StrCell("Kim")],
               [number |-> IntCell(102), name |-> NaN],
               [number |-> StrCell("A-7"), name |-> StrCell("Lee")]}
TableChoices ==
  {[columns |-> {"number", "name"}, rows |-> rs] :
     rs \in {<<>>} \cup {<<r>> : r \in RowChoices}
            \cup {<<r, q>> : r \in RowChoices, q \in RowChoices}}
  \cup {[columns |-> cs, rows |-> <<[number |-> IntCell(101), name |-> NaN]>>] :
          cs \in {{"number"}, {"name"}, {}}}

\* The user puts a file in the uploader of student_management.
CsvUpload(table) ==
  /\ csv_file = NoCsv
  /\ csv_file' = [present |-> TRUE, columns |-> table.columns, rows |-> table.rows,
                  pos |-> "start"]
  /\ imsg' = ""
  /\ UNCHANGED <<classes, students, nextStudent, attVars, courseVars, classVars, exportVars>>

\* The documents the batch sets: one per row, under new ids.
ImportedDocs(c, rows, first) ==
  [i \in first + 1..first + Len(rows) |->
     [class_id |-> c, student_number |-> Str(rows[i - first].number),
      name |-> Str(rows[i - first].name)]]

\* One execution of student_management with section c selected and a file in
\* the uploader (the one that follows the upload, the one st.rerun() starts,
\* or one started by any other widget): the file is read and its rows are
\* written in one batch. The execution is handed either the UploadedFile
\* object of the execution before, with its stream where read_csv left it,
\* or a new one (renewed); read_csv of a stream at its end raises.
ImportRun(c, renewed, ok) ==
  /\ c \in DOMAIN classes
  /\ csv_file.present
  /\ LET pos == IF renewed THEN "start" ELSE csv_file.pos
     IN IF pos = "end"
        THEN /\ imsg' = "exception"
             /\ csv_file' = [csv_file EXCEPT !.pos = "end"]
             /\ UNCHANGED <<students, nextStudent>>
        ELSE /\ csv_file' = [csv_file EXCEPT !.pos = "end"]
             /\ IF ~({"number", "name"} \subseteq csv_file.columns)
                THEN /\ imsg' = "error_columns"
                     /\ UNCHANGED <<students, nextStudent>>
                ELSE IF ~ok
                THEN /\ imsg' = "exception"
                     /\ UNCHANGED <<students, nextStudent>>
                ELSE /\ nextStudent + Len(csv_file.rows) <= MaxStudents
                     /\ nextStudent' = nextStudent + Len(csv_file.rows)
                     /\ students' = students @@ ImportedDocs(c, csv_file.rows, nextStudent)
                     /\ imsg' = "success"
  /\ UNCHANGED <<classes, attVars, courseVars, classVars, exportVars>>

\* Two sections, no students, and no file in the uploader.
InitImport ==
  /\ classes = <<SectionDoc, [SectionDoc EXCEPT !.class_name = "1-2"]>>
  /\ students = <<>>
  /\ attendance = <<>>
  /\ nextStudent = 0
  /\ clock = 0
  /\ apc = [t \in Sessions |-> "idle"]
  /\ actx = [t \in Sessions |-> IdleCtx]
  /\ amsg = [t \in Sessions |-> ""]
  /\ CoursesEmpty
  /\ ClassesIdle
  /\ ImportIdle

NextImport ==
  \/ \E table \in TableChoices : CsvUpload(table)
  \/ \E c \in DOMAIN classes, renewed \in BOOLEAN, ok \in BOOLEAN : ImportRun(c, renewed, ok)

\* One file is uploaded, and student_management is executed again and again.
SpecImport == InitImport /\ [][NextImport]_vars

\* ----------------------------------------------------------------- export

RECURSIVE SeqById(_, _)
\* The documents coll holds under ids, in the order of the ids: a stream().
SeqById(coll, ids) ==
  IF ids = {} THEN <<>>
  ELSE <<coll[SetMin(ids)]>> \o SeqById(coll, ids \ {SetMin(ids)})

\* The timestamp column of the attendance table turned into text.
TimestampText(doc) == [doc EXCEPT !.last_updated_at = ToString(@)]

RECURSIVE NestedRows(_, _, _)
\* all_students, all_progress: for every section of all_classes in turn, the
\* documents of its sub-collection sub, with the section's id and class_name.
NestedRows(sub, all_classes, ids) ==
  IF ids = {} THEN <<>>
  ELSE LET c == SetMin(ids)
           mine == {i \in DOMAIN sub : sub[i].class_id = c}
           docs == SeqById(sub, mine)
       IN [i \in 1..Len(docs) |->
             [doc |-> docs[i], class_id |-> c, class_name |-> all_classes[c].class_name]]
          \o NestedRows(sub, all_classes, ids \ {c})

\* The table the export builds for worksheet name; all_classes is the list
\* of sections of line 700.
ExportData(name, all_classes) ==
  CASE name = "courses" -> SeqById(courses, DOMAIN courses)
    [] name = "classes" -> SeqById(classes, DOMAIN classes)
    [] name = "attendance" ->
         LET docs == SeqById(attendance, DOMAIN attendance)
         IN [i \in 1..Len(docs) |-> TimestampText(docs[i])]
    [] name = "students" -> NestedRows(students, all_classes, DOMAIN all_classes)
    [] name = "progress" -> NestedRows(progress, all_classes, DOMAIN all_classes)

\* The export after worksheet k: the next worksheet, or the end of the run
\* with the success message.
ExportAdvance(k, msg) ==
  IF k < Len(SheetOrder)
  THEN /\ xpc' = "read"
       /\ xctx' = [xctx EXCEPT !.k = k + 1, !.data = <<>>]
       /\ xmsg' = msg
  ELSE /\ xpc' = "idle"
       /\ xctx' = [xctx EXCEPT !.data = <<>>]
       /\ xmsg' = [msg EXCEPT !.success = TRUE]

\* data_backup, the export button: the spreadsheet is opened.
ExportStart(ok) ==
  /\ xpc = "idle"
  /\ IF ok
     THEN /\ xpc' = "read"
          /\ xctx' = [IdleExport EXCEPT !.k = 1]
          /\ xmsg' = NoExportMsg
     ELSE /\ xpc' = "idle"
          /\ xctx' = IdleExport
          /\ xmsg' = [NoExportMsg EXCEPT !.errors = 1]
  /\ UNCHANGED <<progress, sheets>>
  /\ UNCHANGED <<classes, students, nextStudent, attVars, courseVars, classVars,
                 csv_file, imsg>>

\* The documents of the next worksheet are read; an empty table is skipped.
ExportRead ==
  /\ xpc = "read"
  /\ LET name == SheetOrder[xctx.k]
         all_classes == IF name = "students" THEN classes ELSE xctx.all_classes
         data == ExportData(name, all_classes)
     IN IF data = <<>>
        THEN /\ xpc' = IF xctx.k < Len(SheetOrder) THEN "read" ELSE "idle"
             /\ xctx' = [xctx EXCEPT !.k = IF xctx.k < Len(SheetOrder) THEN @ + 1 ELSE @,
                                     !.all_classes = all_classes]
             /\ xmsg' = [xmsg EXCEPT !.skipped = @ \cup {name},
                                     !.success = xctx.k = Len(SheetOrder)]
        ELSE /\ xpc' = "clear"
             /\ xctx' = [xctx EXCEPT !.data = data, !.all_classes = all_classes]
             /\ UNCHANGED xmsg
  /\ UNCHANGED <<progress, sheets>>
  /\ UNCHANGED <<classes, students, nextStudent, attVars, courseVars, classVars,
                 csv_file, imsg>>

\* The emptied worksheet left as it was found.
ClearedKept(sheet) == [exists |-> TRUE, rows |-> sheet.rows]

\* worksheet.clear(), or add_worksheet() when there is none.
Cleared(sheet) == [exists |-> TRUE, rows |-> <<>>]

\* The worksheet of the table is cleared, or added.
ExportClear ==
  /\ xpc = "clear"
  /\ sheets' = [sheets EXCEPT ![SheetOrder[xctx.k]] = Cleared(@)]
  /\ xpc' = "write"
  /\ UNCHANGED <<progress, xctx, xmsg>>
  /\ UNCHANGED <<classes, students, nextStudent, attVars, courseVars, classVars,
                 csv_file, imsg>>

\* set_with_dataframe: the table is written into the worksheet.
ExportWrite ==
  /\ xpc = "write"
  /\ sheets' = [sheets EXCEPT ![SheetOrder[xctx.k]].rows = xctx.data]
  /\ ExportAdvance(xctx.k, [xmsg EXCEPT !.done = @ \cup {SheetOrder[xctx.k]}])
  /\ UNCHANGED progress
  /\ UNCHANGED <<classes, students, nextStudent, attVars, courseVars, classVars,
                 csv_file, imsg>>

\* A call of the store or of the spreadsheet raises: the run ends there with
\* the one error message of the except clause.
ExportFail ==
  /\ xpc \in {"read", "clear", "write"}
  /\ xpc' = "idle"
  /\ xmsg' = [xmsg EXCEPT !.errors = @ + 1]
  /\ UNCHANGED <<progress, sheets, xctx>>
  /\ UNCHANGED <<classes, students, nextStudent, attVars, courseVars, classVars,
                 csv_file, imsg>>

\* progress_management, the delete button of an entry.
ProgressDelete(e) ==
  /\ e \in DOMAIN progress
  /\ progress' = [i \in DOMAIN progress \ {e} |-> progress[i]]
  /\ UNCHANGED <<sheets, xpc, xctx, xmsg>>
  /\ UNCHANGED <<classes, students, nextStudent, attVars, courseVars, classVars,
                 csv_file, imsg>>

\* A course, a section with a student, a progress entry and an attendance
\* record of the student; an empty spreadsheet.
InitExport ==
  /\ classes = <<SectionDoc>>
  /\ students = <<StudentDoc(1, "101")>>
  /\ attendance = <<[class_id |-> 1, student_id |-> 1, student_number |-> "101",
                     student_name |-> "Kim", date |-> "2025-03-03",
                     status |-> "present", notes |-> "", last_updated_at |-> 1]>>
  /\ nextStudent = 1
  /\ clock = 1
  /\ apc = [t \in Sessions |-> "idle"]
  /\ actx = [t \in Sessions |-> IdleCtx]
  /\ amsg = [t \in Sessions |-> ""]
  /\ courses = <<CourseDoc("Algebra")>>
  /\ blobs = {}
  /\ nextCourse = 1
  /\ nextBlob = 0
  /\ cpc = "idle"
  /\ cctx = IdleCourse
  /\ cmsg = {}
  /\ ClassesIdle
  /\ csv_file = NoCsv
  /\ imsg = ""
  /\ progress = <<[class_id |-> 1, date |-> "2025-03-03", topic |-> "Sets"]>>
  /\ sheets = [n \in Range(SheetOrder) |-> NoSheet]
  /\ xpc = "idle"
  /\ xctx = IdleExport
  /\ xmsg = NoExportMsg

\* Export runs, documents being deleted between the runs.
NextExport ==
  \/ \E ok \in BOOLEAN : ExportStart(ok)
  \/ ExportRead
  \/ ExportClear
  \/ ExportWrite
  \/ ExportFail
  \/ xpc = "idle" /\ \E s \in DOMAIN students : StudentDelete(s)
  \/ xpc = "idle" /\ \E c \in DOMAIN classes : ClassDelete(c)
  \/ xpc = "idle" /\ \E e \in DOMAIN progress : ProgressDelete(e)

SpecExport == InitExport /\ [][NextExport]_vars

\* -------------------------------------------------------------- deletions

\* Two courses, the first with a PDF, a section of each, and students, a
\* progress entry and an attendance record under the sections.
InitDelete ==
  /\ courses = <<[CourseDoc("Algebra") EXCEPT !.pdf_url = 1, !.pdf_path = 1],
                 CourseDoc("Geometry")>>
  /\ blobs = {1}
  /\ nextCourse = 2
  /\ nextBlob = 1
  /\ cpc = "idle"
  /\ cctx = IdleCourse
  /\ cmsg = {}
  /\ classes = <<SectionDoc,
                 [SectionDoc EXCEPT !.course_id = 2, !.course_name = "Geometry"]>>
  /\ students = <<StudentDoc(1, "101"), StudentDoc(2, "102")>>
  /\ nextStudent = 2
  /\ attendance = <<[class_id |-> 1, student_id |-> 1, student_number |-> "101",
                     student_name |-> "Kim", date |-> "2025-03-03",
                     status |-> "present", notes |-> "", last_updated_at |-> 1]>>
  /\ clock = 1
  /\ apc = [t \in Sessions |-> "idle"]
  /\ actx = [t \in Sessions |-> IdleCtx]
  /\ amsg = [t \in Sessions |-> ""]
  /\ ClassesIdle
  /\ csv_file = NoCsv
  /\ imsg = ""
  /\ progress = <<[class_id |-> 1, date |-> "2025-03-03", topic |-> "Sets"],
                  [class_id |-> 2, date |-> "2025-03-03", topic |-> "Angles"]>>
  /\ sheets = [n \in Range(SheetOrder) |-> NoSheet]
  /\ xpc = "idle"
  /\ xctx = IdleExport
  /\ xmsg = NoExportMsg

NextDelete ==
  \/ \E course_id \in DOMAIN courses : CourseDelete(course_id)
  \/ \E raises \in BOOLEAN : CourseDelBlob(raises)
  \/ \E ok \in BOOLEAN : CourseDelDoc(ok)
  \/ \E class_id \in DOMAIN classes : ClassDelete(class_id)
  \/ \E s \in DOMAIN students : StudentDelete(s)
  \/ \E e \in DOMAIN progress : ProgressDelete(e)

\* Courses, sections, students and progress entries are deleted.
SpecDelete == InitDelete /\ [][NextDelete]_vars

\* An attendance record of student s of section c on date d, last written at 1.
AttDoc(c, s, n, d) ==
  [class_id |-> c, student_id |-> s, student_number |-> n, student_name |-> "Kim",
   date |-> d, status |-> "late", notes |-> "bus", last_updated_at |-> 1]

\* Section 1 with one student, a student of each section deleted; records of
\* the student on an earlier date, and of the deleted students.
InitFrame ==
  /\ classes = <<SectionDoc, [SectionDoc EXCEPT !.class_name = "1-2"]>>
  /\ students = (3 :> StudentDoc(1, "102"))
  /\ nextStudent = 3
  /\ attendance = <<AttDoc(1, 3, "102", "2025-02-28"),
                    AttDoc(1, 1, "101", "2025-03-03"),
                    AttDoc(2, 2, "102", "2025-03-03")>>
  /\ clock = 1
  /\ apc = [t \in Sessions |-> "idle"]
  /\ actx = [t \in Sessions |-> IdleCtx]
  /\ amsg = [t \in Sessions |-> ""]
  /\ CoursesEmpty
  /\ ClassesIdle
  /\ csv_file = NoCsv
  /\ imsg = ""
  /\ progress = <<[class_id |-> 1, date |-> "2025-03-03", topic |-> "Sets"]>>
  /\ sheets = [n \in Range(SheetOrder) |-> NoSheet]
  /\ xpc = "idle"
  /\ xctx = IdleExport
  /\ xmsg = NoExportMsg

NextFrame ==
  \/ \E t \in Sessions, c \in DOMAIN classes, d \in Dates :
       \E form \in [Range(students_list(c)) -> FormRows] : AttSubmit(t, c, d, form)
  \/ \E t \in Sessions : AttQuery(t)
  \/ \E t \in Sessions : AttCommit(t)
  \/ \E t \in Sessions : AttFail(t)
  \/ \E s \in DOMAIN students : StudentDelete(s)

\* Submissions beside the records of other sections, dates and students.
SpecFrame == InitFrame /\ [][NextFrame]_vars

\* A section with one student, who has two records for the date, left by
\* two overlapping submissions committed before.
InitDuplicate ==
  /\ classes = <<SectionDoc>>
  /\ students = <<StudentDoc(1, "101")>>
  /\ nextStudent = 1
  /\ attendance = <<[AttDoc(1, 1, "101", "2025-03-03") EXCEPT !.last_updated_at = -1],
                    [AttDoc(1, 1, "101", "2025-03-03") EXCEPT
                       !.status = "absent", !.notes = "sick", !.last_updated_at = 0]>>
  /\ clock = 0
  /\ apc = [t \in Sessions |-> "idle"]
  /\ actx = [t \in Sessions |-> IdleCtx]
  /\ amsg = [t \in Sessions |-> ""]
  /\ CoursesEmpty
  /\ ClassesIdle
  /\ csv_file = NoCsv
  /\ imsg = ""
  /\ progress = <<>>
  /\ sheets = [n \in Range(SheetOrder) |-> NoSheet]
  /\ xpc = "idle"
  /\ xctx = IdleExport
  /\ xmsg = NoExportMsg

NextDuplicate ==
  \/ \E t \in Sessions, c \in DOMAIN classes, d \in Dates :
       \E form \in [Range(students_list(c)) -> FormRows] : AttSubmit(t, c, d, form)
  \/ \E t \in Sessions : AttQuery(t)
  \/ \E t \in Sessions : AttCommit(t)
  \/ \E t \in Sessions : AttFail(t)
  \/ \E s \in DOMAIN students : StudentDelete(s)

\* Submissions, and the deletion of the student, after a duplicate has come
\* about.
SpecDuplicate == InitDuplicate /\ [][NextDuplicate]_vars

\* ---------------------------------------------------------------- claims

\* The step is course_dialog's document write succeeding.
CourseWriteStep == cpc = "write" /\ cpc' = "idle" /\ "success" \in cmsg'

\* C6: a Course add or update whose name is empty or whose file exceeds 10MB
\* mutates nothing: no course document is created or updated, no blob is
\* uploaded and no blob deleted, the handler ending at the validation; the
\* steps that delete, upload and write run for valid input only.
C6_RejectedWritesNothing ==
  [][/\ (/\ cpc = "idle" /\ cctx'.op = "save"
         /\ \/ cctx'.data.name = ""
            \/ cctx'.size # NoFile /\ cctx'.size > 10 * 1024 * 1024)
        => /\ courses' = courses /\ blobs' = blobs
           /\ nextCourse' = nextCourse /\ nextBlob' = nextBlob
           /\ cpc' = "idle"
           /\ cmsg' \in {{"warning_name"}, {"error_size"}}
     /\ cpc' \in {"delete_old", "upload", "write"}
        => cctx'.data.name # "" /\ cctx'.size <= 10 * 1024 * 1024]_vars

\* An edit of a course that has a PDF, with a file over the limit and
\* another name, was rejected: the document and the blob are as they were.
C6_Witness ==
  /\ cpc = "idle" /\ cctx.op = "save"
  /\ cctx.size > 10 * 1024 * 1024 /\ cmsg = {"error_size"}
  /\ cctx.course_id \in DOMAIN courses
  /\ courses[cctx.course_id].name # cctx.data.name
  /\ courses[cctx.course_id].pdf_path # Absent
  /\ courses[cctx.course_id].pdf_path \in blobs

\* C7: when a Course with a PDF is edited with a replacement PDF, the
\* previous blob is deleted before the new one is uploaded, and if the
\* upload then fails the record is left without a syllabus URL and path: it
\* does not keep a URL or path of the deleted blob.
C7_FailedReplacementLeavesNoPdf ==
  [][/\ (cpc = "delete_old" /\ "warning_delete" \notin cmsg')
        => cctx.old_path \notin blobs' /\ nextBlob' = nextBlob
     /\ (/\ CourseWriteStep
         /\ cctx.course_id # Absent /\ cctx.old_path # Absent
         /\ cctx.upload_failed /\ cctx.old_path \notin blobs)
        => /\ courses'[cctx.course_id].pdf_url = Absent
           /\ courses'[cctx.course_id].pdf_path = Absent]_vars

CourseDeleted ==
  /\ cpc = "idle" /\ cctx.op = "delete" /\ "success" \in cmsg
  /\ cctx.course_id \notin DOMAIN courses

CommitStep(t) == apc[t] = "commit" /\ apc'[t] = "idle" /\ clock' = clock + 1
\* The step is session t's submission ending with an exception.
FailStep(t) == apc[t] \in {"query", "commit"} /\ apc'[t] = "idle" /\ clock' = clock

\* C1: when the submissions for a (class_id, date) never interleave, then
\* after any sequence of submissions, roster additions and roster deletions
\* from an empty collection there is at most one AttendanceRecord per
\* (class_id, student_id, date).
C1_AtMostOnePerKey ==
  \A i, j \in DOMAIN attendance :
    (/\ attendance[i].class_id = attendance[j].class_id
     /\ attendance[i].student_id = attendance[j].student_id
     /\ attendance[i].date = attendance[j].date) => i = j

\* Two submissions were committed, and the collection holds the record of a
\* student since deleted beside the record of a student of the roster.
C1_Witness ==
  /\ clock = 2
  /\ \E i \in DOMAIN attendance : attendance[i].student_id \notin DOMAIN students
  /\ \E i \in DOMAIN attendance :
       attendance[i].student_id \in DOMAIN students /\ attendance[i].last_updated_at = 2

\* C2: when two submissions for one section and date overlap, both can run
\* the existence query for a student before either commits, both see no
\* record and both insert: whenever a batch holding a set for a key is
\* committed while a record of that key exists, the key has two records or
\* more afterwards.
C2_RaceInsertsDuplicate ==
  [][\A t \in Sessions :
       CommitStep(t) =>
         \A k \in DOMAIN actx[t].batch :
           LET op == actx[t].batch[k]
           IN (/\ op.kind = "set"
               /\ Matching(attendance, op.data.class_id, op.data.date, op.data.student_id) # {})
              => Cardinality(Matching(attendance', op.data.class_id, op.data.date,
                                      op.data.student_id)) >= 2]_vars

\* Two records of one (class_id, student_id, date), each inserted by one of
\* two commits.
C2_Witness ==
  \E i, j \in DOMAIN attendance :
    /\ i # j
    /\ attendance[i].class_id = attendance[j].class_id
    /\ attendance[i].student_id = attendance[j].student_id
    /\ attendance[i].date = attendance[j].date
    /\ attendance[i].last_updated_at = 1
    /\ attendance[j].last_updated_at = 2

\* The records the last commit wrote: those stamped with the latest timestamp.
LastWritten == {i \in DOMAIN attendance : attendance[i].last_updated_at = clock}

\* The submission x has the section, the date, the roster and the form values
\* of the submission committed last.
RepeatsLast(x) ==
  /\ clock > 0
  /\ {attendance[i].student_id : i \in LastWritten} = Range(x.order)
  /\ \A i \in LastWritten :
       LET r == attendance[i]
       IN /\ r.class_id = x.class_id /\ r.date = x.date
          /\ r.status = x.inputs[r.student_id].status
          /\ r.notes = x.inputs[r.student_id].notes
          /\ r.student_number = x.inputs[r.student_id].student_number
          /\ r.student_name = x.inputs[r.student_id].student_name

\* C3: the reconciler run twice in immediate succession with identical
\* inputs and no interleaving submission leaves exactly one record per roster
\* student for the (class_id, date): the second run finds each record of the
\* first, overwrites its status, notes and last_updated_at in place, keeps
\* its document id and creates no record.
C3_SecondRunUpdates ==
  [][\A t \in Sessions :
       (CommitStep(t) /\ RepeatsLast(actx[t])) =>
         /\ DOMAIN attendance' = DOMAIN attendance
         /\ \A s \in Range(actx[t].order) :
              /\ Cardinality(Matching(attendance', actx[t].class_id, actx[t].date, s)) = 1
              /\ Matching(attendance', actx[t].class_id, actx[t].date, s) \subseteq LastWritten
         /\ \A i \in DOMAIN attendance :
              attendance'[i] = IF i \in LastWritten
                               THEN [attendance[i] EXCEPT !.last_updated_at = clock + 1]
                               ELSE attendance[i]]_vars

\* The second run, identical to the first, has run its query for every
\* student of a roster of two and queued an update of the record found.
C3_Witness ==
  \E t \in Sessions :
    /\ apc[t] = "commit"
    /\ RepeatsLast(actx[t])
    /\ Len(actx[t].order) = 2
    /\ \A k \in DOMAIN actx[t].batch :
         actx[t].batch[k].kind = "update" /\ actx[t].batch[k].ref \in LastWritten
    /\ \E k \in DOMAIN actx[t].batch : actx[t].batch[k].data.status = "absent"

\* C4: a submission for a section of N students with no record yet for the
\* (class_id, date) creates exactly N records, one per roster student, each
\* with the status selected for the student, which is "present" for a row
\* the user did not touch.
C4_CreatesOnePerStudent ==
  [][\A t \in Sessions :
       LET x == actx[t]
           prior == {i \in DOMAIN attendance :
                       attendance[i].class_id = x.class_id /\ attendance[i].date = x.date}
           new == DOMAIN attendance' \ DOMAIN attendance
       IN (CommitStep(t) /\ prior = {}) =>
            /\ Cardinality(new) = Len(x.order)
            /\ \A s \in Range(x.order) :
                 \E i \in new :
                   /\ Matching(attendance', x.class_id, x.date, s) = {i}
                   /\ attendance'[i].status = x.inputs[s].status
                   /\ ~x.inputs[s].touched => attendance'[i].status = "present"
            /\ \A i \in DOMAIN attendance : attendance'[i] = attendance[i]]_vars

\* The first submission for a roster of two: one row untouched, one set to
\* absent.
C4_Witness ==
  /\ clock = 1
  /\ Cardinality(DOMAIN attendance) = 2
  /\ \E i, j \in DOMAIN attendance :
       /\ attendance[i].student_id # attendance[j].student_id
       /\ attendance[i].status = "present" /\ attendance[i].notes = ""
       /\ attendance[j].status = "absent"

\* C5: the writes of one submission are one all-or-nothing batch: a
\* submission that fails at a query or at the commit creates and modifies no
\* record, and the collection changes only by a commit that writes the
\* record of every student of the submission's roster.
C5_AllOrNothing ==
  [][/\ \A t \in Sessions : FailStep(t) => attendance' = attendance
     /\ attendance' # attendance =>
          \E t \in Sessions :
            /\ CommitStep(t)
            /\ \A s \in Range(actx[t].order) :
                 \E i \in Matching(attendance', actx[t].class_id, actx[t].date, s) :
                   /\ attendance'[i].last_updated_at = clock'
                   /\ attendance'[i].status = actx[t].inputs[s].status
                   /\ attendance'[i].notes = actx[t].inputs[s].notes
            /\ \A i \in DOMAIN attendance' :
                 \/ attendance'[i].last_updated_at = clock'
                 \/ i \in DOMAIN attendance /\ attendance'[i] = attendance[i]]_vars

\* One session's submission failed and wrote nothing, while the other
\* session's commit wrote the records of both students at once.
C5_Witness ==
  \E t \in Sessions :
    /\ amsg[t] = "exception" /\ apc[t] = "idle"
    /\ clock = 1
    /\ Cardinality(DOMAIN attendance) = 2
    /\ \A i \in DOMAIN attendance : attendance[i].last_updated_at = 1

\* Where day stands in days.
DayIndex(day) == CHOOSE i \in DOMAIN days : days[i] = day

\* C10: for every Section add or update, the schedule stored by the save is
\* the union over the five weekdays of the periods selected for the weekday,
\* ordered by weekday (Mon..Fri), without a duplicate (day, period) pair;
\* an edit replaces the whole previous schedule, no entry of which stays
\* unless it is selected.
C10_ScheduleIsSelection ==
  [][(kpc = "write" /\ kmsg' \in {"success_add", "success_edit"}) =>
       \E id \in DOMAIN classes' :
         LET schedule == classes'[id].schedule
             selected == kctx.selected_periods
             pairs == {<<schedule[i].day, schedule[i].period>> : i \in DOMAIN schedule}
         IN /\ id = IF kctx.class_id # Absent THEN kctx.class_id ELSE nextClass'
            /\ kctx.class_id = Absent => id \notin DOMAIN classes
            /\ pairs = UNION {{<<days[k], selected[days[k]][n]>> :
                                 n \in DOMAIN selected[days[k]]} : k \in 1..5}
            /\ \A i, j \in DOMAIN schedule :
                 i < j => /\ DayIndex(schedule[i].day) <= DayIndex(schedule[j].day)
                          /\ schedule[i] # schedule[j]
            /\ (kctx.class_id # Absent /\ kctx.class_id \in DOMAIN classes) =>
                 \A i \in DOMAIN classes[id].schedule :
                   LET old == classes[id].schedule[i]
                   IN (\E j \in DOMAIN schedule : schedule[j] = old)
                        <=> (\E n \in DOMAIN selected[old.day] :
                               selected[old.day][n] = old.period)]_vars

\* An edit was saved that kept the Monday of the section as it was and
\* changed its Friday: the stored schedule has Monday's period before the
\* two picked for Friday, and the period Friday had before is gone.
C10_Witness ==
  /\ kpc = "idle" /\ kmsg = "success_edit"
  /\ kctx.class_id \in DOMAIN classes
  /\ kctx.default_schedule = <<[day |-> "Mon", period |-> 1], [day |-> "Fri", period |-> 1]>>
  /\ classes[kctx.class_id].schedule =
       <<[day |-> "Mon", period |-> 1], [day |-> "Fri", period |-> 8],
         [day |-> "Fri", period |-> 2]>>

\* The step is class_dialog's write of the section succeeding.
ClassWriteStep == kpc = "write" /\ kmsg' \in {"success_add", "success_edit"}

\* The section the step wrote.
WrittenClass == IF kctx.class_id # Absent THEN kctx.class_id ELSE nextClass'

\* C11: at the moment a Section is written (add or update), its course_id
\* references an existing Course, and its course_name, year and semester equal
\* that Course's values at write time, also when the Course was renamed,
\* edited or deleted after the section form was rendered.
C11_SectionMatchesCourse ==
  [][ClassWriteStep =>
       LET c == classes'[WrittenClass]
       IN /\ c.course_id \in DOMAIN courses
          /\ c.course_name = courses[c.course_id].name
          /\ c.year = courses[c.course_id].year
          /\ c.semester = courses[c.course_id].semester]_vars

\* C12: a bulk import of a table of R rows adds R Student documents to the
\* section, one per row, each with a non-empty student_number and name that
\* are the row's values as strings; the executions of the view that follow
\* the upload do not import the table a second time, so that after one
\* upload the store holds no document or R of them, all in one section; a
\* table lacking a required column adds none.
C12_TableImportedOnce ==
  csv_file.present =>
    /\ Cardinality(DOMAIN students) \in {0, Len(csv_file.rows)}
    /\ \A i, j \in DOMAIN students : students[i].class_id = students[j].class_id
    /\ ~({"number", "name"} \subseteq csv_file.columns) => DOMAIN students = {}
    /\ \A i \in DOMAIN students :
         /\ students[i].student_number # "" /\ students[i].name # ""
         /\ \E k \in DOMAIN csv_file.rows :
              /\ students[i].student_number = Str(csv_file.rows[k].number)
              /\ students[i].name = Str(csv_file.rows[k].name)

\* The documents of the collection behind worksheet name, as rows.
CollectionRows(name) ==
  CASE name = "courses" -> Range(courses)
    [] name = "classes" -> Range(classes)
    [] name = "attendance" -> {TimestampText(attendance[i]) : i \in DOMAIN attendance}
    [] name = "students" -> {students[i] : i \in DOMAIN students}
    [] name = "progress" -> {progress[i] : i \in DOMAIN progress}

\* The documents a worksheet holds, without the columns the export adds.
SheetRows(name) ==
  IF name \in {"students", "progress"}
  THEN {sheets[name].rows[i].doc : i \in DOMAIN sheets[name].rows}
  ELSE Range(sheets[name].rows)

\* C13: when an export run ends with the success message, every one of the
\* five worksheets holds exactly the documents of its collection at export
\* time; a worksheet whose collection is empty holds no row of an earlier run.
C13_SheetsEqualCollections ==
  [][(xpc # "idle" /\ xpc' = "idle" /\ xmsg'.success) =>
       \A n \in Range(SheetOrder) : SheetRows(n)' = CollectionRows(n)]_vars

\* The step is an export run ending at a call that raised.
ExportFailStep ==
  xpc \in {"read", "clear", "write"} /\ xpc' = "idle" /\ xmsg'.errors > xmsg.errors

\* What holds of every failed run: the failure writes nothing and rolls
\* nothing back, one error and no success are shown, the worksheets before
\* the k-th are done (holding their tables) or skipped, those from the k-th
\* on are not done; and a step of a run changes the worksheet it is at only.
ExportFailureFrame ==
  /\ ExportFailStep =>
       /\ sheets' = sheets
       /\ xmsg'.errors = 1 /\ ~xmsg'.success
       /\ \A i \in 1..Len(SheetOrder) :
            IF i < xctx.k
            THEN SheetOrder[i] \in xmsg'.done \cup xmsg'.skipped
            ELSE SheetOrder[i] \notin xmsg'.done \cup xmsg'.skipped
       /\ \A n \in xmsg'.done : sheets'[n] = [exists |-> TRUE, rows |-> ExportData(n, classes)]
  /\ \A n \in Range(SheetOrder) :
       sheets'[n] # sheets[n] => xpc \in {"clear", "write"} /\ n = SheetOrder[xctx.k]
  /\ xmsg'.success => xmsg'.errors = 0

\* C14 as stated: a failure at the k-th worksheet leaves the worksheets
\* before it updated and those after it unchanged, stops the run without
\* rollback, with one error and no success; and every worksheet is then
\* fully written or untouched, none cleared but unwritten.
C14_FailureLeavesNoClearedSheet ==
  [][/\ ExportFailureFrame
     /\ ExportFailStep =>
          \A n \in Range(SheetOrder) : sheets'[n].exists => sheets'[n].rows # <<>>]_vars

\* C14, amended: a failure at the k-th worksheet leaves the worksheets
\* before it updated and those after it unchanged, stops the run without
\* rollback, with one error and no success; the k-th worksheet itself is
\* unchanged when the failure comes before its clear() or add_worksheet(),
\* and is left cleared but unwritten (or newly added and empty) when
\* set_with_dataframe fails.
C14_FailureMayLeaveClearedSheet ==
  [][/\ ExportFailureFrame
     /\ (ExportFailStep /\ xpc = "write") =>
          sheets'[SheetOrder[xctx.k]] = [exists |-> TRUE, rows |-> <<>>]]_vars

\* A run failed writing the second worksheet: "courses" is done, "classes"
\* is left cleared, and "students" still holds the rows of an earlier run.
C14_Witness ==
  /\ xpc = "idle" /\ xmsg.errors = 1 /\ ~xmsg.success
  /\ xctx.k = 2 /\ xmsg.done = {"courses"}
  /\ sheets["classes"] = [exists |-> TRUE, rows |-> <<>>]
  /\ sheets["courses"].rows = SeqById(courses, DOMAIN courses)
  /\ sheets["students"].rows # <<>>

\* C15: deleting a Course or a Section removes that document only (and, for
\* a Course, its attached blob): the Sections, also those that reference the
\* deleted Course, and the Students, ProgressEntries and AttendanceRecords,
\* also those of the deleted Section, are unchanged and stay in the store.
C15_DeleteDoesNotCascade ==
  [][/\ DOMAIN classes' # DOMAIN classes =>
          /\ \E c \in DOMAIN classes :
               /\ DOMAIN classes' = DOMAIN classes \ {c}
               /\ \A s \in DOMAIN students :
                    students[s].class_id = c =>
                      s \in DOMAIN students' /\ students'[s].class_id = c
          /\ \A i \in DOMAIN classes' : classes'[i] = classes[i]
          /\ students' = students /\ progress' = progress /\ attendance' = attendance
          /\ courses' = courses /\ blobs' = blobs
     /\ (cpc \in {"del_blob", "del_doc"} /\ cpc' # cpc) =>
          /\ classes' = classes /\ students' = students
          /\ progress' = progress /\ attendance' = attendance
          /\ blobs \ blobs' \subseteq {cctx.old_path}
          /\ \A i \in DOMAIN courses' : i \in DOMAIN courses /\ courses'[i] = courses[i]
          /\ DOMAIN courses \ DOMAIN courses' \subseteq {cctx.course_id}
          /\ cpc = "del_blob" => courses' = courses
          /\ cpc = "del_doc" => blobs' = blobs]_vars

\* Course 1 and its blob are gone while section 1 still references it, and
\* section 2 is gone while its student, its progress entry and the
\* attendance record of section 1 are all in the store.
C15_Witness ==
  /\ CourseDeleted /\ cctx.course_id = 1 /\ 1 \notin blobs
  /\ 1 \in DOMAIN classes /\ classes[1].course_id = 1
  /\ 2 \notin DOMAIN classes
  /\ \E s \in DOMAIN students : students[s].class_id = 2
  /\ \E e \in DOMAIN progress : progress[e].class_id = 2
  /\ DOMAIN attendance # {}

SameKey(att, i) == Matching(att, att[i].class_id, att[i].date, att[i].student_id)

\* C17: no operation deletes or merges AttendanceRecords, so a key never
\* has fewer records than before; once a key has two records, a later
\* submission for its section and date updates exactly one of them, the one
\* the limit-1 query returns, and leaves the other unchanged, so the
\* duplicate stays; the form row was filled in from the record streamed
\* last, which need not be the record updated.
C17_DuplicatesPersist ==
  [][/\ DOMAIN attendance \subseteq DOMAIN attendance'
     /\ \A i \in DOMAIN attendance : SameKey(attendance, i) \subseteq SameKey(attendance', i)
     /\ \A t \in Sessions :
          /\ (apc[t] = "query" /\ Len(actx'[t].batch) > Len(actx[t].batch)) =>
               LET op == actx'[t].batch[Len(actx'[t].batch)]
                   m == Matching(attendance, op.data.class_id, op.data.date,
                                 op.data.student_id)
               IN m # {} => op.kind = "update" /\ op.ref = SetMin(m)
          /\ CommitStep(t) =>
               \A k \in DOMAIN actx[t].batch :
                 LET op == actx[t].batch[k]
                     m == Matching(attendance, op.data.class_id, op.data.date,
                                   op.data.student_id)
                 IN (Cardinality(m) >= 2 /\ op.kind = "update") =>
                      /\ {i \in m : attendance'[i] # attendance[i]} = {op.ref}
                      /\ Matching(attendance', op.data.class_id, op.data.date,
                                  op.data.student_id) = m
          /\ (apc[t] = "idle" /\ apc'[t] = "query") =>
               \A s \in Range(actx'[t].order) :
                 LET m == Matching(attendance, actx'[t].class_id, actx'[t].date, s)
                 IN (m # {} /\ ~actx'[t].inputs[s].touched) =>
                      actx'[t].inputs[s].status = attendance[SetMax(m)].status]_vars

\* A submission with the row untouched was committed: the first record of
\* the key now holds the status and the note the second had, the form being
\* filled in from the second, which is as it was; the key still has both.
C17_Witness ==
  /\ clock = 1
  /\ DOMAIN attendance = {1, 2}
  /\ attendance[1].status = "absent" /\ attendance[1].notes = "sick"
  /\ attendance[1].last_updated_at = 1
  /\ attendance[2].status = "absent" /\ attendance[2].last_updated_at = 0
  /\ SameKey(attendance, 1) = {1, 2}

====
